---- MODULE Spec2Model ----
(***************************************************************************)
(* Model of the numeric core of the InvestoPal dashboards:                 *)
(*   src/investopal.py  (the "investopal" variant)                         *)
(*   src/app.py         (the "app" variant, second script of the file,     *)
(*                       and the profile dashboard, first script)          *)
(*                                                                         *)
(* The scripts keep no state between runs.  The state of the model is the  *)
(* operation performed in the current run, its inputs and its outcome.     *)
(*                                                                         *)
(* Numbers.  Python floats are modelled as exact rationals <<n, d>> with   *)
(* d > 0 and gcd(n, d) = 1, plus the value NaN.  Floating-point rounding   *)
(* is not modelled.  A value of the form s * sqrt(q) (volatility, Sharpe   *)
(* ratio) is kept as the record [sgn |-> s, sq |-> q].                     *)
(***************************************************************************)
EXTENDS Integers, Sequences, FiniteSets, TLC

VARIABLES op, args, result

vars == <<op, args, result>>

----------------------------------------------------------------------------
(* Bounds of the model *)

MaxYears == 1

MaxLen == 3

MaxBothLen == 2

MaxCompare == 2

MaxHorizon == 3

MaxExtra == 2

MaxArticles == 2

----------------------------------------------------------------------------
(* Exact arithmetic on floats: rationals <<n, d>>, and NaN == <<0, 0>> *)

NaN == <<0, 0>>

IsNaN(a) == a[2] = 0

Abs(n) == IF n < 0 THEN -n ELSE n

RECURSIVE GCD(_, _)
GCD(a, b) == IF b = 0 THEN a ELSE GCD(b, a % b)

\* the float n / d; 0 / 0 and every operation on NaN give NaN
Rat(n, d) ==
    IF d = 0 THEN NaN
    ELSE LET g == GCD(Abs(n), Abs(d))
             s == IF d < 0 THEN -1 ELSE 1
         IN  <<(s * n) \div g, (s * d) \div g>>

R(n) == <<n, 1>>

\* sums and products reduce by common factors before multiplying, so that
\* intermediate values stay small; the value is the exact rational
RAdd(a, b) ==
    IF IsNaN(a) \/ IsNaN(b) THEN NaN
    ELSE LET g == GCD(a[2], b[2])
         IN  Rat(a[1] * (b[2] \div g) + b[1] * (a[2] \div g), (a[2] \div g) * b[2])

RSub(a, b) == RAdd(a, <<-b[1], b[2]>>)

RMul(a, b) ==
    IF IsNaN(a) \/ IsNaN(b) THEN NaN
    ELSE LET g1 == IF a[1] = 0 THEN b[2] ELSE GCD(Abs(a[1]), b[2])
             g2 == IF b[1] = 0 THEN a[2] ELSE GCD(Abs(b[1]), a[2])
         IN  Rat((a[1] \div g1) * (b[1] \div g2), (a[2] \div g2) * (b[2] \div g1))

RDiv(a, b) ==
    IF IsNaN(a) \/ IsNaN(b) \/ b[1] = 0 THEN NaN
    ELSE RMul(a, IF b[1] < 0 THEN <<-b[2], -b[1]>> ELSE <<b[2], b[1]>>)

\* comparisons with NaN are false
RLess(a, b) == ~IsNaN(a) /\ ~IsNaN(b) /\ a[1] * b[2] < b[1] * a[2]

RLeq(a, b) == ~IsNaN(a) /\ ~IsNaN(b) /\ a[1] * b[2] <= b[1] * a[2]

\* Python's !=, true when either side is NaN
RNeq(a, b) == IsNaN(a) \/ IsNaN(b) \/ a # b

RSign(a) == IF a[1] > 0 THEN 1 ELSE IF a[1] < 0 THEN -1 ELSE 0

\* The float s * sqrt(q) for a sign s and a rational q >= 0, as [sgn, sq];
\* s = 0 exactly when q = 0 or q is NaN.
Root(s, q) == [sgn |-> IF IsNaN(q) \/ q[1] = 0 THEN 0 ELSE s, sq |-> q]

RootNaN == Root(0, NaN)

RootZero == Root(0, R(0))

RootIsNaN(v) == IsNaN(v.sq)

\* a rational float x seen as sign(x) * sqrt(x * x)
RootOf(x) == Root(RSign(x), RMul(x, x))

\* v < x for a root value v and a rational x
RootLess(v, x) ==
    /\ ~RootIsNaN(v)
    /\ ~IsNaN(x)
    /\ LET xx == RMul(x, x)
       IN  CASE RSign(x) > 0 -> v.sgn <= 0 \/ RLess(v.sq, xx)
             [] RSign(x) = 0 -> v.sgn < 0
             [] OTHER        -> v.sgn < 0 /\ RLess(xx, v.sq)

\* v > x for a root value v and a rational x
RootGreater(v, x) ==
    /\ ~RootIsNaN(v)
    /\ ~IsNaN(x)
    /\ LET xx == RMul(x, x)
       IN  CASE RSign(x) > 0 -> v.sgn > 0 /\ RLess(xx, v.sq)
             [] RSign(x) = 0 -> v.sgn > 0
             [] OTHER        -> v.sgn >= 0 \/ RLess(v.sq, xx)

----------------------------------------------------------------------------
(* Compounding projector: simulate_investment, src/investopal.py *)

PeriodsPerYear == 12

MonthRangeShort(months) == 1 .. months - 1

\* range(1, months + 1): the months visited by the loop, empty when months < 1
MonthRange(months) == 1 .. months

CompoundNoContribution(current_value, monthly_return, monthly_contribution) ==
    RMul(current_value, RAdd(R(1), monthly_return))

\* one iteration of the loop body
Compound(current_value, monthly_return, monthly_contribution) ==
    RAdd(RMul(current_value, RAdd(R(1), monthly_return)), monthly_contribution)

RECURSIVE SimLoopAppendBefore(_, _, _, _, _)
SimLoopAppendBefore(values, current_value, month, months, rc) ==
    IF month \notin MonthRange(months) THEN values
    ELSE SimLoopAppendBefore(Append(values, current_value),
                             Compound(current_value, rc[1], rc[2]),
                             month + 1, months, rc)

RECURSIVE SimLoop(_, _, _, _, _)
SimLoop(values, current_value, month, months, rc) ==
    IF month \notin MonthRange(months) THEN values
    ELSE LET nv == Compound(current_value, rc[1], rc[2])
         IN  SimLoop(Append(values, nv), nv, month + 1, months, rc)

simulate_investment(initial_amount, annual_return, years, monthly_contribution) ==
    LET months == years * PeriodsPerYear
        monthly_return == RDiv(annual_return, R(PeriodsPerYear))
    IN  SimLoop(<<initial_amount>>, initial_amount, 1, months,
                <<monthly_return, monthly_contribution>>)

\* inputs of the projector
Amounts == {R(-1), R(0), R(1), R(2)}

Contributions == {R(-1), R(0), R(1)}

AnnualReturns == {R(-24), R(-12), R(-6), R(0), R(12)}

YearsRange == -1 .. MaxYears

\* the calls of simulate_investment: (initial_amount, annual_return, years,
\* monthly_contribution), with the default sidebar amount at rate 0
ProjectionInputs ==
    (Amounts \X AnnualReturns \X YearsRange \X Contributions)
    \cup {<<R(50000), R(0), 1, R(0)>>, <<R(50000), R(0), 1, R(10000)>>}

----------------------------------------------------------------------------
(* Lump-sum projection: calculate_projected_value, src/app.py *)

\* a ** n for an integer n >= 0
RECURSIVE RPow(_, _)
RPow(a, n) == IF n = 0 THEN R(1) ELSE RMul(a, RPow(a, n - 1))

calculate_projected_value_simple_interest(principal, annual_return, years) ==
    RMul(principal, RAdd(R(1), RMul(annual_return, R(years))))

\* principal * (1 + annual_return)**years
calculate_projected_value(principal, annual_return, years) ==
    RMul(principal, RPow(RAdd(R(1), annual_return), years))

\* expected_return of the three risk profiles
ExpectedReturns == {Rat(5, 100), Rat(8, 100), Rat(12, 100)}

\* inputs of the lump-sum projection
Principals == {R(0), R(1), R(1000)}

LumpSumReturns == ExpectedReturns \cup {R(-2), R(-1), R(0), R(1)}

----------------------------------------------------------------------------
(* Series operations of pandas and numpy used by calculate_risk_metrics *)

\* the sum of a list, by halves
RECURSIVE SeqSum(_)
SeqSum(s) ==
    IF s = <<>> THEN R(0)
    ELSE IF Len(s) = 1 THEN s[1]
    ELSE LET h == Len(s) \div 2
         IN  RAdd(SeqSum(SubSeq(s, 1, h)), SeqSum(SubSeq(s, h + 1, Len(s))))

NotNaN(x) == ~IsNaN(x)

\* Series.dropna()
dropna(s) == SelectSeq(s, NotNaN)

\* Series.ffill(): a missing value takes the last value before it
RECURSIVE ffillFrom(_, _)
ffillFrom(s, last) ==
    IF s = <<>> THEN <<>>
    ELSE LET x == IF IsNaN(Head(s)) THEN last ELSE Head(s)
         IN  <<x>> \o ffillFrom(Tail(s), x)

ffill(s) == ffillFrom(s, NaN)

\* Series.pct_change(): s[i] / s[i-1] - 1, no value for the first entry.
\* pad is pandas' fill_method default: "pad" (pandas < 3) or none (pandas 3).
pct_change(s, pad) ==
    LET f == IF pad THEN ffill(s) ELSE s
    IN  [i \in 1 .. Len(s) |->
            IF i = 1 THEN NaN ELSE RSub(RDiv(f[i], f[i - 1]), R(1))]

\* Series.mean() of a series without missing values
Mean(s) == IF s = <<>> THEN NaN ELSE RDiv(SeqSum(s), R(Len(s)))

\* square of Series.std() (ddof = 1): no value for fewer than 2 entries
Variance(s) ==
    IF Len(s) < 2 THEN NaN
    ELSE LET m == Mean(s)
             sq == [i \in 1 .. Len(s) |-> RMul(RSub(s[i], m), RSub(s[i], m))]
         IN  RDiv(SeqSum(sq), R(Len(s) - 1))

RMax(a, b) == IF IsNaN(a) THEN b ELSE IF IsNaN(b) THEN a
              ELSE IF RLess(a, b) THEN b ELSE a

RMin(a, b) == IF IsNaN(a) THEN b ELSE IF IsNaN(b) THEN a
              ELSE IF RLess(b, a) THEN b ELSE a

RECURSIVE SeriesMax(_)
SeriesMax(s) ==
    IF s = <<>> THEN NaN
    ELSE IF Len(s) = 1 THEN s[1]
    ELSE LET h == Len(s) \div 2
         IN  RMax(SeriesMax(SubSeq(s, 1, h)), SeriesMax(SubSeq(s, h + 1, Len(s))))

\* Series.cummax(): running maximum, missing entries stay missing
RECURSIVE cummaxFrom(_, _)
cummaxFrom(s, best) ==
    IF s = <<>> THEN <<>>
    ELSE IF IsNaN(Head(s)) THEN <<NaN>> \o cummaxFrom(Tail(s), best)
    ELSE LET b == RMax(best, Head(s))
         IN  <<b>> \o cummaxFrom(Tail(s), b)

cummax_overall(s) == [i \in 1 .. Len(s) |-> IF IsNaN(s[i]) THEN NaN ELSE SeriesMax(s)]

cummax(s) == cummaxFrom(s, NaN)

\* Series.min(): minimum of the present entries, NaN when there is none
RECURSIVE SeriesMin(_)
SeriesMin(s) ==
    IF s = <<>> THEN NaN
    ELSE IF Len(s) = 1 THEN s[1]
    ELSE LET h == Len(s) \div 2
         IN  RMin(SeriesMin(SubSeq(s, 1, h)), SeriesMin(SubSeq(s, h + 1, Len(s))))

\* the list sorted ascending (np.percentile sorts its input)
RECURSIVE SortAsc(_)
SortAsc(s) ==
    IF s = <<>> THEN <<>>
    ELSE LET i == CHOOSE i \in 1 .. Len(s) :
                      \A j \in 1 .. Len(s) : RLeq(s[i], s[j])
             rest == [k \in 1 .. Len(s) - 1 |-> IF k < i THEN s[k] ELSE s[k + 1]]
         IN  <<s[i]>> \o SortAsc(rest)

\* np.percentile(s, q) of a non-empty list, linear interpolation
percentile(s, q) ==
    LET n == Len(s)
        srt == SortAsc(s)
        lo == ((n - 1) * q) \div 100
        frac == Rat(((n - 1) * q) % 100, 100)
        hi == IF lo + 2 <= n THEN lo + 2 ELSE n
    IN  RAdd(srt[lo + 1], RMul(frac, RSub(srt[hi], srt[lo + 1])))

----------------------------------------------------------------------------
(* Price tables: the DataFrame returned by yf.download *)

AdjCloseField == "Adj Close"

CloseField == "Close"

NoneData == [kind |-> "None"]

\* multi: the columns are a MultiIndex (field, ticker); key: "ticker" when
\* the second level is the requested ticker, "other" when it is another one.
\* The table has rows rows; a field that is absent has the empty series.
DataFrame(multi, key, rows, has_adj, adj, has_close, close) ==
    [kind |-> "DataFrame", multi |-> multi, key |-> key, rows |-> rows,
     has_adj |-> has_adj, adj |-> adj, has_close |-> has_close, close |-> close]

\* DataFrame.empty
IsEmpty(data) == data.rows = 0

\* (field, ticker) in data.columns, for MultiIndex columns
HasKeyed(data, field) ==
    /\ data.key = "ticker"
    /\ IF field = AdjCloseField THEN data.has_adj ELSE data.has_close

\* field in data.columns
HasField(data, field) ==
    IF field = AdjCloseField THEN data.has_adj ELSE data.has_close

Column(data, field) == IF field = AdjCloseField THEN data.adj ELSE data.close

----------------------------------------------------------------------------
(* Risk metrics *)

TradingDays == 252

RollingWindow == 30

ReturnsNone == [kind |-> "None"]

Raise(e) == [kind |-> "raise", exc |-> e]

Metrics(m) == [kind |-> "metrics", value |-> m]

\* returns.std() * np.sqrt(252)
volatility(returns) == Root(1, RMul(Variance(returns), R(TradingDays)))

\* (returns.mean() / returns.std()) * np.sqrt(252) if returns.std() != 0 else 0
sharpe_ratio(returns) ==
    LET v == Variance(returns)
        m == Mean(returns)
    IN  IF RNeq(v, R(0))
        THEN Root(RSign(m), RMul(RDiv(RMul(m, m), v), R(TradingDays)))
        ELSE RootZero

\* ((adj_close / adj_close.cummax()) - 1).min()
max_drawdown(adj_close) ==
    LET cm == cummax(adj_close)
    IN  SeriesMin([i \in 1 .. Len(adj_close) |->
                     RSub(RDiv(adj_close[i], cm[i]), R(1))])

rolling_volatility_zero_filled(returns) ==
    [i \in 1 .. Len(returns) |->
        IF i < RollingWindow THEN RootZero
        ELSE Root(1, RMul(Variance(SubSeq(returns, i - RollingWindow + 1, i)),
                          R(TradingDays)))]

\* returns.rolling(30).std() * np.sqrt(252)
rolling_volatility(returns) ==
    [i \in 1 .. Len(returns) |->
        IF i < RollingWindow THEN RootNaN
        ELSE Root(1, RMul(Variance(SubSeq(returns, i - RollingWindow + 1, i)),
                          R(TradingDays)))]

total_return_swapped(adj_close) ==
    RMul(RSub(RDiv(adj_close[1], adj_close[Len(adj_close)]), R(1)), R(100))

\* (adj_close.iloc[-1] / adj_close.iloc[0] - 1) * 100, of a non-empty series
total_return(adj_close) ==
    RMul(RSub(RDiv(adj_close[Len(adj_close)], adj_close[1]), R(1)), R(100))

\* calculate_risk_metrics of src/app.py
calculate_risk_metrics_app(data) ==
    IF data.kind = "None" \/ IsEmpty(data) THEN ReturnsNone
    ELSE LET found ==
                 IF data.multi
                 THEN IF HasKeyed(data, AdjCloseField) THEN AdjCloseField
                      ELSE IF HasKeyed(data, CloseField) THEN CloseField
                      ELSE "none"
                 ELSE IF HasField(data, AdjCloseField) THEN AdjCloseField
                      ELSE IF HasField(data, CloseField) THEN CloseField
                      ELSE "none"
         IN  IF found = "none" THEN ReturnsNone
             ELSE LET adj_close == dropna(Column(data, found))
                      returns == dropna(pct_change(adj_close, TRUE))
                  IN  IF adj_close = <<>> THEN ReturnsNone
                      ELSE Metrics([volatility |-> volatility(returns),
                                    avg_return |-> RMul(Mean(returns), R(TradingDays)),
                                    max_drawdown |-> max_drawdown(adj_close),
                                    sharpe_ratio |-> sharpe_ratio(returns),
                                    rolling_volatility |-> rolling_volatility(returns),
                                    total_return |-> total_return(adj_close)])

\* the metrics dictionary of src/investopal.py for a price series adj_close;
\* old_numpy: np.percentile of an empty list gives NaN (it raises IndexError
\* in later numpy releases)
investopal_metrics(adj_close, pad, old_numpy) ==
    LET returns == dropna(pct_change(adj_close, pad))
        var_95 == IF returns = <<>> THEN NaN ELSE percentile(returns, 5)
        tail == SelectSeq(returns, LAMBDA r : RLeq(r, var_95))
    IN  IF returns = <<>> /\ ~old_numpy THEN Raise("IndexError")
        ELSE IF adj_close = <<>> THEN Raise("IndexError")
        ELSE Metrics([volatility |-> volatility(returns),
                      avg_return |-> RMul(Mean(returns), R(TradingDays)),
                      max_drawdown |-> max_drawdown(adj_close),
                      sharpe_ratio |-> sharpe_ratio(returns),
                      var_95 |-> var_95,
                      cvar_95 |-> Mean(tail),
                      rolling_volatility |-> rolling_volatility(returns),
                      total_return |-> total_return(adj_close)])

\* calculate_risk_metrics of src/investopal.py: the outcomes it can have
calculate_risk_metrics_investopal(data) ==
    IF data.kind = "None" \/ IsEmpty(data) THEN {ReturnsNone}
    ELSE IF data.multi
    THEN IF HasKeyed(data, AdjCloseField)
         THEN {investopal_metrics(Column(data, AdjCloseField), pad, old) :
                  pad \in BOOLEAN, old \in BOOLEAN}
         ELSE IF HasField(data, AdjCloseField)
         \* data['Adj Close'] is a DataFrame: the test returns.std() != 0
         \* is the truth value of a Series
         THEN {Raise("ValueError")}
         \* adj_close = pd.Series()
         ELSE {investopal_metrics(<<>>, pad, old) : pad \in BOOLEAN, old \in BOOLEAN}
    ELSE IF HasField(data, AdjCloseField)
         THEN {investopal_metrics(Column(data, AdjCloseField), pad, old) :
                  pad \in BOOLEAN, old \in BOOLEAN}
         ELSE {Raise("KeyError")}

\* categorize_risk of src/investopal.py
categorize_risk_investopal(vol) ==
    IF RootLess(vol, Rat(2, 10)) THEN "Conservative"
    ELSE IF RootLess(vol, Rat(4, 10)) THEN "Moderate"
    ELSE "Aggressive"

categorize_risk_app_inclusive(vol) ==
    IF ~RootGreater(vol, Rat(2, 10)) /\ ~RootIsNaN(vol) THEN "Conservative"
    ELSE IF ~RootGreater(vol, Rat(4, 10)) /\ ~RootIsNaN(vol) THEN "Moderate"
    ELSE "Aggressive"

\* categorize_risk of src/app.py
categorize_risk_app(vol) ==
    IF RootLess(vol, Rat(2, 10)) THEN "Conservative"
    ELSE IF RootLess(vol, Rat(4, 10)) THEN "Moderate"
    ELSE "Aggressive"

----------------------------------------------------------------------------
(* Advice *)

RAbs(a) == IF RSign(a) < 0 THEN RSub(R(0), a) ELSE a

\* generate_ai_advice of src/investopal.py; the advice list as tags
generate_ai_advice_investopal(risk_category, metrics, selected_risk) ==
    LET risk ==
            IF risk_category # selected_risk
            THEN IF risk_category = "Aggressive"
                    /\ selected_risk \in {"Conservative", "Moderate"}
                 THEN <<"risk_mismatch">>
                 ELSE IF risk_category = "Conservative" /\ selected_risk = "Aggressive"
                 THEN <<"lower_risk">>
                 ELSE <<>>
            ELSE <<>>
        perf ==
            IF RootGreater(metrics.sharpe_ratio, Rat(15, 10)) THEN <<"strong_performance">>
            ELSE IF RootLess(metrics.sharpe_ratio, Rat(5, 10)) THEN <<"poor_risk_adjusted">>
            ELSE <<>>
        vol ==
            IF RootGreater(metrics.volatility, Rat(5, 10)) THEN <<"high_volatility">>
            ELSE IF RootLess(metrics.volatility, Rat(15, 100)) THEN <<"stable_investment">>
            ELSE <<>>
        dd ==
            IF RLess(Rat(3, 10), RAbs(metrics.max_drawdown)) THEN <<"high_drawdown">>
            ELSE <<>>
    IN  risk \o perf \o vol \o dd

generate_ai_advice_app_inclusive(risk_category, metrics, selected_risk) ==
    LET risk == IF risk_category # selected_risk THEN <<"risk_mismatch">> ELSE <<>>
        perf ==
            IF ~RootLess(metrics.sharpe_ratio, Rat(15, 10))
               /\ ~RootIsNaN(metrics.sharpe_ratio)
            THEN <<"strong_performance">>
            ELSE IF RootLess(metrics.sharpe_ratio, Rat(5, 10)) THEN <<"poor_risk_adjusted">>
            ELSE <<>>
    IN  risk \o perf

\* generate_ai_advice of src/app.py; the advice list as tags
generate_ai_advice_app(risk_category, metrics, selected_risk) ==
    LET risk == IF risk_category # selected_risk THEN <<"risk_mismatch">> ELSE <<>>
        perf ==
            IF RootGreater(metrics.sharpe_ratio, Rat(15, 10)) THEN <<"strong_performance">>
            ELSE IF RootLess(metrics.sharpe_ratio, Rat(5, 10)) THEN <<"poor_risk_adjusted">>
            ELSE <<>>
    IN  risk \o perf

----------------------------------------------------------------------------
(* Fetching: the provider either raises or returns a price table *)

ProviderRaises == [kind |-> "raise"]

get_stock_data_app_no_empty_check(response) ==
    IF response.kind = "raise" THEN [data |-> NoneData, messages |-> <<>>]
    ELSE [data |-> response, messages |-> <<>>]

\* get_stock_data(ticker, start_date, end_date) of src/app.py:
\* the data, and the messages it shows
get_stock_data_app(response) ==
    IF response.kind = "raise" THEN [data |-> NoneData, messages |-> <<>>]
    ELSE IF IsEmpty(response) THEN [data |-> NoneData, messages |-> <<>>]
    ELSE [data |-> response, messages |-> <<>>]

\* get_stock_data(ticker, start_date, end_date) of src/investopal.py
get_stock_data_investopal(response) ==
    IF response.kind = "raise"
    THEN [data |-> NoneData, messages |-> <<"error: Error fetching data">>]
    ELSE IF IsEmpty(response)
    THEN [data |-> NoneData, messages |-> <<"warning: No data found">>]
    ELSE [data |-> response, messages |-> <<>>]

----------------------------------------------------------------------------
(* The analysis run: the handler of the "Run Analysis" button *)

NotComputed == [kind |-> "not computed"]

NoSimulation == [values |-> <<>>]

\* what a run shows; exception is the exception that ends the run, or "none"
RunOutcome(messages, metrics, risk_category, advice, chart, projection, comparison, exception) ==
    [kind |-> "run", messages |-> messages, metrics |-> metrics,
     risk_category |-> risk_category, advice |-> advice, chart |-> chart,
     projection |-> projection, comparison |-> comparison,
     exception |-> exception]

\* the comparison loop of src/app.py: one line per ticker that has metrics
RECURSIVE compare_app(_, _)
compare_app(tickers, provider) ==
    IF tickers = <<>> THEN <<>>
    ELSE LET comp == Head(tickers)
             comp_data == get_stock_data_app(provider[comp]).data
             comp_metrics == IF comp_data.kind = "None" THEN ReturnsNone
                             ELSE calculate_risk_metrics_app(comp_data)
             line == IF comp_metrics.kind = "metrics"
                     THEN <<[ticker |-> comp,
                             total_return |-> comp_metrics.value.total_return]>>
                     ELSE <<>>
         IN  line \o compare_app(Tail(tickers), provider)

\* the run of src/app.py for the primary ticker's response, the selected
\* risk level and the comparison tickers
run_analysis_app(response, selected_risk, compare_tickers, provider) ==
    LET stock_data == get_stock_data_app(response).data
    IN  IF stock_data.kind # "None"
        THEN LET metrics == calculate_risk_metrics_app(stock_data)
                 shown == metrics.kind = "metrics"
                 risk_category == IF shown
                                  THEN categorize_risk_app(metrics.value.volatility)
                                  ELSE "none"
                 advice == IF shown
                           THEN generate_ai_advice_app(risk_category, metrics.value,
                                                       selected_risk)
                           ELSE <<>>
             IN  RunOutcome(<<>>, metrics, risk_category, advice, shown, NoSimulation,
                            compare_app(compare_tickers, provider), "none")
        ELSE RunOutcome(<<"error: No data available">>, NotComputed, "none",
                        <<>>, FALSE, NoSimulation, <<>>, "none")

simulation_results_overcounted(projected_values, investment_amount, monthly_sip, investment_years) ==
    LET final_value == projected_values[Len(projected_values)]
        total_invested == RMul(RMul(RAdd(investment_amount, monthly_sip),
                                    R(investment_years)), R(12))
        total_returns == RSub(final_value, total_invested)
    IN  [values |-> projected_values,
         final_value |-> final_value,
         total_invested |-> total_invested,
         total_returns |-> total_returns,
         return_percentage |-> IF RLess(R(0), total_invested)
                               THEN RMul(RDiv(total_returns, total_invested), R(100))
                               ELSE R(0)]

\* the simulation results shown by src/investopal.py
simulation_results(projected_values, investment_amount, monthly_sip, investment_years) ==
    LET final_value == projected_values[Len(projected_values)]
        total_invested == RAdd(investment_amount,
                               RMul(RMul(monthly_sip, R(investment_years)), R(12)))
        total_returns == RSub(final_value, total_invested)
    IN  [values |-> projected_values,
         final_value |-> final_value,
         total_invested |-> total_invested,
         total_returns |-> total_returns,
         return_percentage |-> IF RLess(R(0), total_invested)
                               THEN RMul(RDiv(total_returns, total_invested), R(100))
                               ELSE R(0)]

\* the run of src/investopal.py, up to the end of the simulation section,
\* for one outcome of calculate_risk_metrics
run_analysis_investopal(response, metrics, selected_risk, analysis_type, investment_amount, monthly_sip, investment_years) ==
    LET fetched == get_stock_data_investopal(response)
    IN  IF fetched.data.kind # "None"
        THEN IF metrics.kind = "raise"
             THEN RunOutcome(fetched.messages, NotComputed, "none", <<>>, FALSE,
                             NoSimulation, <<>>, metrics.exc)
             ELSE IF metrics.kind = "None"
             \* metrics["volatility"] of None
             THEN RunOutcome(fetched.messages, metrics, "none", <<>>, FALSE,
                             NoSimulation, <<>>, "TypeError")
             ELSE LET risk_category == categorize_risk_investopal(metrics.value.volatility)
                      advice == generate_ai_advice_investopal(risk_category, metrics.value,
                                                              selected_risk)
                      projected_values ==
                          simulate_investment(investment_amount, metrics.value.avg_return,
                                              investment_years, monthly_sip)
                  IN  RunOutcome(fetched.messages \o <<"success: Analysis complete">>,
                                 metrics, risk_category, advice,
                                 analysis_type = "Detailed",
                                 simulation_results(projected_values, investment_amount,
                                                    monthly_sip, investment_years),
                                 <<>>, "none")
        ELSE RunOutcome(fetched.messages, NotComputed, "none", <<>>, FALSE,
                        NoSimulation, <<>>, "none")

----------------------------------------------------------------------------
(* The profile dashboard: the first script of src/app.py *)

\* RISK_PROFILES: the expected annual return of each risk tolerance
RISK_PROFILES ==
    [Conservative |-> Rat(5, 100), Balanced |-> Rat(8, 100), Aggressive |-> Rat(12, 100)]

NEWS_API_KEY == "YOUR_NEWS_API_KEY"

FetchError == <<"error: Error fetching data">>

\* the dict returned for a history with at least two closing prices
StockSummary(close) ==
    LET n == Len(close)
        current_price == close[n]
        previous_close == close[n - 1]
        daily_change_abs == RSub(current_price, previous_close)
        one_year_ago_price == close[1]
    IN  [kind |-> "dict",
         current_price |-> current_price,
         daily_change_abs |-> daily_change_abs,
         daily_change_pct |-> RMul(RDiv(daily_change_abs, previous_close), R(100)),
         one_year_return_pct |->
             RMul(RDiv(RSub(current_price, one_year_ago_price), one_year_ago_price),
                  R(100)),
         history |-> close]

get_stock_data_profile_single_row(response) ==
    IF response.kind = "raise" THEN [data |-> NoneData, messages |-> FetchError]
    ELSE IF response.rows = 0 THEN [data |-> NoneData, messages |-> <<>>]
    ELSE IF ~response.has_close THEN [data |-> NoneData, messages |-> FetchError]
    ELSE IF Len(response.close) < 2
    THEN [data |-> StockSummary(response.close \o response.close), messages |-> <<>>]
    ELSE [data |-> StockSummary(response.close), messages |-> <<>>]

\* get_stock_data(ticker) of the first script: the one-year summary, and the
\* messages it shows.  A history without a Close column (KeyError) and a
\* history of one row (IndexError of iloc[-2]) end in the except branch.
get_stock_data_profile(response) ==
    IF response.kind = "raise" THEN [data |-> NoneData, messages |-> FetchError]
    ELSE IF response.rows = 0 THEN [data |-> NoneData, messages |-> <<>>]
    ELSE IF ~response.has_close THEN [data |-> NoneData, messages |-> FetchError]
    ELSE IF Len(response.close) < 2 THEN [data |-> NoneData, messages |-> FetchError]
    ELSE [data |-> StockSummary(response.close), messages |-> <<>>]

\* get_financial_news(query, api_key): the articles, and the messages shown
get_financial_news(api_key, reply) ==
    IF api_key = "YOUR_NEWS_API_KEY"
    THEN [articles |-> <<>>, messages |-> <<"warning: replace YOUR_NEWS_API_KEY">>]
    ELSE IF reply.kind = "raise"
    THEN [articles |-> <<>>, messages |-> <<"error: Error fetching news">>]
    ELSE IF reply.status = "ok"
    THEN [articles |-> reply.articles, messages |-> <<>>]
    ELSE [articles |-> <<>>, messages |-> <<"error: Error fetching news">>]

\* the loop that renders the articles: article['title'] and article['url']
\* raise KeyError on an article without that field
RECURSIVE render_news(_)
render_news(news_articles) ==
    IF news_articles = <<>> THEN [lines |-> <<>>, exception |-> "none"]
    ELSE LET article == Head(news_articles)
         IN  IF "title" \notin DOMAIN article \/ "url" \notin DOMAIN article
             THEN [lines |-> <<>>, exception |-> "KeyError"]
             ELSE LET rest == render_news(Tail(news_articles))
                  IN  [lines |-> <<[title |-> article.title, url |-> article.url]>>
                                 \o rest.lines,
                       exception |-> rest.exception]

\* one run of the first script: the stock panel with its news, then the
\* projections; an exception ends the run
run_profile(response, api_key, reply, risk_tolerance, investment_amount, investment_horizon) ==
    LET fetched == get_stock_data_profile(response)
        shown == fetched.data.kind # "None"
        news == IF shown THEN get_financial_news(api_key, reply)
                ELSE [articles |-> <<>>, messages |-> <<>>]
        rendered == IF shown /\ news.articles # <<>> THEN render_news(news.articles)
                    ELSE [lines |-> <<>>, exception |-> "none"]
        info == IF shown /\ news.articles = <<>> THEN <<"info: No news found">> ELSE <<>>
        expected_return == RISK_PROFILES[risk_tolerance]
        projected_values ==
            IF rendered.exception = "none"
            THEN [year \in 1 .. investment_horizon |->
                     calculate_projected_value(investment_amount, expected_return, year)]
            ELSE <<>>
    IN  [kind |-> "profile",
         stock |-> fetched.data,
         messages |-> fetched.messages \o news.messages \o info,
         articles |-> news.articles,
         news |-> rendered.lines,
         projected_values |-> projected_values,
         exception |-> rendered.exception]

----------------------------------------------------------------------------
(* Inputs *)

Prices == {R(1), R(2), R(4)}

\* a price or a missing value
Cells == Prices \cup {NaN}

SeriesOfLen(n) == [1 .. n -> Cells]

\* cells of the tables that carry both price fields
BothCells == {R(1), R(2), NaN}

Shapes == {<<FALSE, "none">>, <<TRUE, "ticker">>, <<TRUE, "other">>}

Tables ==
    UNION {
        {DataFrame(sh[1], sh[2], n, FALSE, <<>>, FALSE, <<>>) : sh \in Shapes}
        \cup {DataFrame(sh[1], sh[2], n, TRUE, a, FALSE, <<>>) :
                 sh \in Shapes, a \in SeriesOfLen(n)}
        \cup {DataFrame(sh[1], sh[2], n, FALSE, <<>>, TRUE, c) :
                 sh \in Shapes, c \in SeriesOfLen(n)}
        \cup (IF n > MaxBothLen THEN {}
              ELSE {DataFrame(sh[1], sh[2], n, TRUE, a, TRUE, c) :
                       sh \in Shapes, a \in [1 .. n -> BothCells],
                       c \in [1 .. n -> BothCells]})
        : n \in 0 .. MaxLen }

\* price histories long enough for a rolling window: flat, alternating
\* 1, 2 and cycling 1, 2, 4
LongSeries ==
    {[i \in 1 .. n |-> R(1)] : n \in RollingWindow .. RollingWindow + MaxExtra}
    \cup {[i \in 1 .. n |-> IF i % 2 = 1 THEN R(1) ELSE R(2)] :
             n \in RollingWindow .. RollingWindow + MaxExtra}
    \cup {[i \in 1 .. n |-> IF i % 3 = 1 THEN R(1) ELSE IF i % 3 = 2 THEN R(2) ELSE R(4)] :
             n \in RollingWindow .. RollingWindow + MaxExtra}

LongTables == {DataFrame(FALSE, "none", Len(a), TRUE, a, FALSE, <<>>) : a \in LongSeries}

DataInputs == Tables \cup LongTables \cup {NoneData}

\* volatilities given to categorize_risk
Volatilities ==
    {Rat(n, 1000) : n \in {0, 100, 199, 200, 201, 300, 399, 400, 401, 500}}
    \cup {NaN}

RiskLevels == {"Conservative", "Moderate", "Aggressive"}

AnalysisTypes == {"Detailed", "Quick", "Comparison"}

\* price series of the tables given to a run
RunSeries ==
    { <<>>, <<R(21)>>, <<R(21), R(21), R(21)>>, <<R(21), R(22), R(22)>>,
      <<R(21), R(20), R(20)>>, <<R(80), R(81), Rat(6399, 80)>>, <<R(21), NaN, R(21)>> }

\* what the provider answers for the primary ticker of a run
RunResponses ==
    {ProviderRaises}
    \cup {DataFrame(sh[1], sh[2], Len(a), TRUE, a, FALSE, <<>>) :
             sh \in Shapes, a \in RunSeries}
    \cup {DataFrame(sh[1], sh[2], Len(a), FALSE, <<>>, TRUE, a) :
             sh \in Shapes, a \in RunSeries}
    \cup {DataFrame(sh[1], sh[2], Len(a), FALSE, <<>>, FALSE, <<>>) :
             sh \in Shapes, a \in RunSeries}

CompareTickers == {"B", "C"}

\* what the provider answers for a comparison ticker
CompareResponses ==
    { ProviderRaises,
      DataFrame(FALSE, "none", 0, TRUE, <<>>, FALSE, <<>>),
      DataFrame(FALSE, "none", 2, FALSE, <<>>, FALSE, <<>>),
      DataFrame(FALSE, "none", 2, TRUE, <<R(1), R(2)>>, FALSE, <<>>),
      DataFrame(TRUE, "ticker", 2, FALSE, <<>>, TRUE, <<R(2), R(1)>>) }

\* the comparison lists: no ticker, or up to MaxCompare tickers
CompareLists == UNION {[1 .. n -> CompareTickers] : n \in 0 .. MaxCompare}

\* sidebar inputs of the simulation
InvestmentAmounts == {R(1024)}

MonthlySips == {R(0), R(1024)}

InvestmentYears == {1}

\* what the provider answers for the one-year history
Histories ==
    {ProviderRaises, [kind |-> "history", rows |-> 2, has_close |-> FALSE, close |-> <<>>]}
    \cup {[kind |-> "history", rows |-> Len(c), has_close |-> TRUE, close |-> c] :
             c \in {<<>>, <<R(2)>>, <<R(1), R(2)>>, <<R(2), R(1)>>, <<R(4), R(1), R(2)>>}}

\* the key of the script, or the key of a deployment that replaced it
ApiKeys == {NEWS_API_KEY, "configured"}

\* articles of the news service; any field may be absent
Articles ==
    { [title |-> "T1", url |-> "U1", source |-> "S1", publishedAt |-> "P1"],
      [title |-> "T2", url |-> "U2"],
      [url |-> "U3", source |-> "S3", publishedAt |-> "P3"],
      [title |-> "T4", source |-> "S4", publishedAt |-> "P4"] }

NewsReplies ==
    {[kind |-> "raise"], [kind |-> "json", status |-> "error", articles |-> <<>>]}
    \cup {[kind |-> "json", status |-> "ok", articles |-> a] :
             a \in UNION {[1 .. n -> Articles] : n \in 0 .. MaxArticles}}

\* the choices of the investment horizon selectbox within the bound
Horizons == {h \in {1, 3, 5, 10, 15, 20} : h <= MaxHorizon}

\* inputs of generate_ai_advice
SharpeRatios ==
    {Rat(n, 100) : n \in {-100, 0, 49, 50, 51, 100, 149, 150, 151, 200}} \cup {NaN}

AdviceVolatilities == {Rat(10, 100), Rat(30, 100), Rat(60, 100)}

Drawdowns == {R(0), Rat(-1, 2)}

AdviceMetrics ==
    {[sharpe_ratio |-> sr, volatility |-> v, max_drawdown |-> dd] :
        sr \in SharpeRatios, v \in AdviceVolatilities, dd \in Drawdowns}

\* the metrics dict given to generate_ai_advice
MetricsDict(m) ==
    [sharpe_ratio |-> RootOf(m.sharpe_ratio), volatility |-> RootOf(m.volatility),
     max_drawdown |-> m.max_drawdown]

----------------------------------------------------------------------------
(* State machine *)

NoArgs == [none |-> TRUE]

NoResult == [kind |-> "none"]

Init ==
    /\ op = "idle"
    /\ args = NoArgs
    /\ result = NoResult

SimulateInvestment ==
    \E in \in ProjectionInputs :
        /\ op = "idle"
        /\ op' = "simulate_investment"
        /\ args' = [initial_amount |-> in[1], annual_return |-> in[2],
                    years |-> in[3], monthly_contribution |-> in[4]]
        /\ result' = [kind |-> "value",
                      value |-> simulate_investment(in[1], in[2], in[3], in[4])]

CalculateRiskMetricsApp ==
    \E data \in DataInputs :
        /\ op = "idle"
        /\ op' = "app.calculate_risk_metrics"
        /\ args' = [data |-> data]
        /\ result' = calculate_risk_metrics_app(data)

CalculateRiskMetricsInvestopal ==
    \E data \in DataInputs :
        /\ op = "idle"
        /\ op' = "investopal.calculate_risk_metrics"
        /\ args' = [data |-> data]
        /\ result' \in calculate_risk_metrics_investopal(data)

CategorizeRiskApp ==
    \E v \in Volatilities :
        /\ op = "idle"
        /\ op' = "app.categorize_risk"
        /\ args' = [volatility |-> v]
        /\ result' = [kind |-> "value", value |-> categorize_risk_app(RootOf(v))]

CategorizeRiskInvestopal ==
    \E v \in Volatilities :
        /\ op = "idle"
        /\ op' = "investopal.categorize_risk"
        /\ args' = [volatility |-> v]
        /\ result' = [kind |-> "value",
                      value |-> categorize_risk_investopal(RootOf(v))]

RunAnalysisApp ==
    \E response \in RunResponses, selected_risk \in RiskLevels,
       compare_tickers \in CompareLists,
       provider \in [CompareTickers -> CompareResponses] :
        /\ op = "idle"
        \* a run with a comparison list takes its primary answer from the
        \* comparison answers
        /\ compare_tickers # <<>> => response \in CompareResponses
        /\ compare_tickers = <<>> =>
               provider = [t \in CompareTickers |-> ProviderRaises]
        /\ op' = "app.run_analysis"
        /\ args' = [response |-> response, selected_risk |-> selected_risk,
                    compare_tickers |-> compare_tickers, provider |-> provider]
        /\ result' = run_analysis_app(response, selected_risk, compare_tickers,
                                      provider)

RunAnalysisInvestopal ==
    \E response \in RunResponses, selected_risk \in RiskLevels,
       analysis_type \in AnalysisTypes, investment_amount \in InvestmentAmounts,
       monthly_sip \in MonthlySips, investment_years \in InvestmentYears :
        /\ op = "idle"
        /\ op' = "investopal.run_analysis"
        /\ args' = [response |-> response, selected_risk |-> selected_risk,
                    analysis_type |-> analysis_type,
                    investment_amount |-> investment_amount,
                    monthly_sip |-> monthly_sip,
                    investment_years |-> investment_years]
        /\ \E metrics \in IF response.kind = "raise" THEN {NotComputed}
                           ELSE calculate_risk_metrics_investopal(response) :
               result' = run_analysis_investopal(response, metrics, selected_risk,
                             analysis_type, investment_amount, monthly_sip,
                             investment_years)

CalculateProjectedValue ==
    \E principal \in Principals, annual_return \in LumpSumReturns,
       years \in 0 .. MaxHorizon :
        /\ op = "idle"
        /\ op' = "calculate_projected_value"
        /\ args' = [principal |-> principal, annual_return |-> annual_return,
                    years |-> years]
        /\ result' = [kind |-> "value",
                      value |-> calculate_projected_value(principal, annual_return,
                                                          years)]

GetStockDataProfile ==
    \E response \in Histories :
        /\ op = "idle"
        /\ op' = "app.get_stock_data_profile"
        /\ args' = [response |-> response]
        /\ result' = get_stock_data_profile(response)

RunProfile ==
    \E response \in Histories, api_key \in ApiKeys, reply \in NewsReplies,
       risk_tolerance \in DOMAIN RISK_PROFILES, investment_horizon \in Horizons :
        /\ op = "idle"
        /\ op' = "app.run_profile"
        /\ args' = [response |-> response, api_key |-> api_key, reply |-> reply,
                    risk_tolerance |-> risk_tolerance,
                    investment_amount |-> R(1000),
                    investment_horizon |-> investment_horizon]
        /\ result' = run_profile(response, api_key, reply, risk_tolerance, R(1000),
                                 investment_horizon)

GenerateAdviceApp ==
    \E risk_category \in RiskLevels, m \in AdviceMetrics, selected_risk \in RiskLevels :
        /\ op = "idle"
        /\ op' = "app.generate_ai_advice"
        /\ args' = [risk_category |-> risk_category, metrics |-> m,
                    selected_risk |-> selected_risk]
        /\ result' = [kind |-> "advice",
                      value |-> generate_ai_advice_app(risk_category, MetricsDict(m),
                                                       selected_risk)]

GenerateAdviceInvestopal ==
    \E risk_category \in RiskLevels, m \in AdviceMetrics, selected_risk \in RiskLevels :
        /\ op = "idle"
        /\ op' = "investopal.generate_ai_advice"
        /\ args' = [risk_category |-> risk_category, metrics |-> m,
                    selected_risk |-> selected_risk]
        /\ result' = [kind |-> "advice",
                      value |-> generate_ai_advice_investopal(risk_category,
                                                              MetricsDict(m),
                                                              selected_risk)]

\* Streamlit runs the script again from the top on the next interaction:
\* nothing of the previous run is kept
Rerun ==
    /\ op # "idle"
    /\ op' = "idle"
    /\ args' = NoArgs
    /\ result' = NoResult

Next ==
    \/ Rerun
    \/ SimulateInvestment
    \/ CalculateRiskMetricsApp
    \/ CalculateRiskMetricsInvestopal
    \/ CategorizeRiskApp
    \/ CategorizeRiskInvestopal
    \/ RunAnalysisApp
    \/ RunAnalysisInvestopal
    \/ CalculateProjectedValue
    \/ GetStockDataProfile
    \/ RunProfile
    \/ GenerateAdviceApp
    \/ GenerateAdviceInvestopal

Spec == Init /\ [][Next]_vars

----------------------------------------------------------------------------
(* Properties *)

MetricsOps == {"app.calculate_risk_metrics", "investopal.calculate_risk_metrics"}

CategorizeOps == {"app.categorize_risk", "investopal.categorize_risk"}

RunOps == {"app.run_analysis", "investopal.run_analysis"}

\* the table has the field for the requested ticker
Available(data, field) ==
    IF data.multi THEN HasKeyed(data, field) ELSE HasField(data, field)

\* the field the price series is to be taken from: adjusted close, else close
PriceField(data) ==
    IF Available(data, AdjCloseField) THEN AdjCloseField
    ELSE IF Available(data, CloseField) THEN CloseField
    ELSE "none"

\* the field the operation takes its price series from
UsedField(o, data) ==
    IF o = "app.calculate_risk_metrics" THEN PriceField(data)
    ELSE IF Available(data, AdjCloseField) THEN AdjCloseField ELSE "none"

NoMissing(p) == \A i \in 1 .. Len(p) : ~IsNaN(p[i])

\* the operation is calculate_risk_metrics on a table from which it takes a
\* price series of at least n prices, none missing
OnCleanSeries(n) ==
    /\ op \in MetricsOps
    /\ args.data.kind = "DataFrame"
    /\ UsedField(op, args.data) # "none"
    /\ NoMissing(Column(args.data, UsedField(op, args.data)))
    /\ Len(Column(args.data, UsedField(op, args.data))) >= n

UsedSeries == Column(args.data, UsedField(op, args.data))

\* C1: the trajectory of simulate_investment starts at initial_amount and
\* each later value is the previous one times (1 + annual_return/12) plus
\* monthly_contribution, for every integer years >= 0.
C1_Recurrence ==
    (op = "simulate_investment" /\ args.years >= 0) =>
        LET v == result.value
            rate == RDiv(args.annual_return, R(12))
        IN  /\ result.kind = "value"
            /\ v[1] = args.initial_amount
            /\ \A k \in 1 .. 12 * args.years :
                   v[k + 1] = RAdd(RMul(v[k], RAdd(R(1), rate)),
                                   args.monthly_contribution)

C1_Witness ==
    /\ op = "simulate_investment"
    /\ args.years = MaxYears
    /\ args.initial_amount = R(2)
    /\ args.annual_return = R(-6)
    /\ args.monthly_contribution = R(1)
    /\ Len(result.value) = 12 * MaxYears + 1

\* C2: simulate_investment called with a negative amount, contribution or
\* horizon is rejected and returns no trajectory.
C2_NegativeInputRejected ==
    (/\ op = "simulate_investment"
     /\ \/ RLess(args.initial_amount, R(0))
        \/ RLess(args.monthly_contribution, R(0))
        \/ args.years < 0)
    => result.kind # "value"

\* C3: a price series with fewer than 2 valid points yields the unavailable
\* outcome (None), never a metrics bundle and never an exception.
C3_FewerThanTwoUnavailable ==
    (/\ op \in MetricsOps
     /\ args.data.kind = "DataFrame"
     /\ LET f == PriceField(args.data)
        IN  f = "none" \/ Len(dropna(Column(args.data, f))) < 2)
    => result.kind = "None"

\* C4: the price series is the adjusted-close field when present and the
\* close field otherwise; a table with only a close field gives metrics
\* computed from close.
C4_AdjustedCloseElseClose ==
    (/\ op \in MetricsOps
     /\ args.data.kind = "DataFrame"
     /\ PriceField(args.data) # "none"
     /\ NoMissing(Column(args.data, PriceField(args.data)))
     /\ Len(Column(args.data, PriceField(args.data))) >= 2)
    => LET p == Column(args.data, PriceField(args.data))
       IN  /\ result.kind = "metrics"
           /\ result.value.total_return
                  = RMul(RSub(RDiv(p[Len(p)], p[1]), R(1)), R(100))

\* C5: with neither price field, or with a selected series that is empty
\* after dropping missing values, the outcome is unavailable (None) and no
\* exception escapes.
C5_NoFieldOrEmptyUnavailable ==
    (/\ op \in MetricsOps
     /\ args.data.kind = "DataFrame"
     /\ LET f == PriceField(args.data)
        IN  f = "none" \/ dropna(Column(args.data, f)) = <<>>)
    => result.kind = "None"

C7_StepFunction ==
    op \in CategorizeOps =>
        LET v == args.volatility
            c == result.value
        IN  /\ c \in RiskLevels
            /\ RLess(v, Rat(20, 100)) => c = "Conservative"
            /\ RLeq(Rat(20, 100), v) /\ RLess(v, Rat(40, 100)) => c = "Moderate"
            /\ RLeq(Rat(40, 100), v) => c = "Aggressive"
            /\ categorize_risk_app(RootOf(v)) = categorize_risk_investopal(RootOf(v))
            /\ c = categorize_risk_app(RootOf(v))

C7_Witness ==
    /\ op = "app.categorize_risk"
    /\ args.volatility = Rat(20, 100)
    /\ result.value = "Moderate"

\* the period returns of a price series without missing values
ReturnsOf(p) == [i \in 1 .. Len(p) - 1 |-> RSub(RDiv(p[i + 1], p[i]), R(1))]

\* C8: when all period returns of a series of at least 2 prices are
\* identical (a single return included), sharpe_ratio is exactly 0.
C8_IdenticalReturnsSharpeZero ==
    (/\ OnCleanSeries(2)
     /\ result.kind = "metrics"
     /\ \A i, j \in 1 .. Len(UsedSeries) - 1 :
            ReturnsOf(UsedSeries)[i] = ReturnsOf(UsedSeries)[j])
    => result.value.sharpe_ratio = RootZero

\* the largest of the first i prices
PeakUpTo(p, i) ==
    CHOOSE m \in {p[j] : j \in 1 .. i} : \A j \in 1 .. i : RLeq(p[j], m)

\* min over i of price[i] / max(price[0..i]) - 1
DrawdownOf(p) ==
    LET dd == {RSub(RDiv(p[i], PeakUpTo(p, i)), R(1)) : i \in 1 .. Len(p)}
    IN  CHOOSE d \in dd : \A e \in dd : RLeq(d, e)

NonDecreasing(p) == \A i \in 1 .. Len(p) - 1 : RLeq(p[i], p[i + 1])

\* C9: for a series of positive prices, max_drawdown is the minimum over i
\* of price[i] / max(price[0..i]) - 1, lies in [-1, 0], and is 0 exactly
\* when the series is non-decreasing.
C9_MaxDrawdown ==
    (OnCleanSeries(1) /\ result.kind = "metrics") =>
        LET d == result.value.max_drawdown
        IN  /\ d = DrawdownOf(UsedSeries)
            /\ RLeq(R(-1), d)
            /\ RLeq(d, R(0))
            /\ (d = R(0)) <=> NonDecreasing(UsedSeries)

C9_Witness ==
    /\ OnCleanSeries(1)
    /\ result.kind = "metrics"
    /\ UsedSeries = <<R(2), R(4), R(1)>>
    /\ result.value.max_drawdown = Rat(-3, 4)

\* C10: when the provider raises or returns a table with zero rows, the run
\* reports a no-data message, computes no metrics, risk category, advice,
\* chart, projection or comparison, and ends without an exception.
C10_NoDataRun ==
    (/\ op \in RunOps
     /\ \/ args.response.kind = "raise"
        \/ args.response.rows = 0)
    => /\ result.messages # <<>>
       /\ result.metrics = NotComputed
       /\ result.risk_category = "none"
       /\ result.advice = <<>>
       /\ ~result.chart
       /\ result.projection = NoSimulation
       /\ result.comparison = <<>>
       /\ result.exception = "none"

C10_Witness ==
    /\ op = "app.run_analysis"
    /\ args.response.kind = "DataFrame"
    /\ args.response.rows = 0
    /\ result.messages = <<"error: No data available">>
    /\ result.exception = "none"

\* C11: for every integer years >= 0 the trajectory has exactly
\* 12 * years + 1 entries; with a horizon of 0 it is [initial_amount].
C11_TrajectoryLength ==
    (op = "simulate_investment" /\ args.years >= 0) =>
        /\ Len(result.value) = 12 * args.years + 1
        /\ args.years = 0 => result.value = <<args.initial_amount>>

C11_Witness ==
    /\ op = "simulate_investment"
    /\ args.years = MaxYears
    /\ args.annual_return = R(12)
    /\ Len(result.value) = 12 * MaxYears + 1

\* C12: with an annual rate of 0 the trajectory is linear,
\* values[k] = initial_amount + k * monthly_contribution for every k; with
\* 50000, no contribution and 12 months it is 13 points equal to 50000.
C12_ZeroRateLinear ==
    (/\ op = "simulate_investment"
     /\ args.years >= 0
     /\ args.annual_return = R(0))
    => /\ \A k \in 0 .. 12 * args.years :
              result.value[k + 1]
                  = RAdd(args.initial_amount, RMul(R(k), args.monthly_contribution))
       /\ (/\ args.initial_amount = R(50000)
           /\ args.monthly_contribution = R(0)
           /\ args.years = 1)
          => result.value = [k \in 1 .. 13 |-> R(50000)]

C12_Witness ==
    /\ op = "simulate_investment"
    /\ args.initial_amount = R(50000)
    /\ args.annual_return = R(0)
    /\ args.monthly_contribution = R(10000)
    /\ args.years = 1
    /\ result.value[13] = R(170000)

\* the trajectory of the projector's loop run for n periods at the periodic
\* rate annual_rate / 1 with no contribution
LumpSumTrajectory(principal, annual_rate, n) ==
    SimLoop(<<principal>>, principal, 1, n, <<RDiv(annual_rate, R(1)), R(0)>>)

\* C13: calculate_projected_value(principal, rate, years) equals the final
\* value of the projector's recurrence run for years periods with no
\* contribution and one period per year.
C13_ClosedFormEqualsRecurrence ==
    op = "calculate_projected_value" =>
        LET t == LumpSumTrajectory(args.principal, args.annual_return, args.years)
        IN  /\ Len(t) = args.years + 1
            /\ result.value = t[Len(t)]

C13_Witness ==
    /\ op = "calculate_projected_value"
    /\ args.principal = R(1000)
    /\ args.annual_return = Rat(8, 100)
    /\ args.years = 2
    /\ result.value = Rat(5832, 5)

\* the sample variance (n - 1 in the divisor) of a list of n >= 2 returns
SampleVarOf(w) ==
    LET n == Len(w)
        sum == SeqSum(w)
        squares == SeqSum([i \in 1 .. n |-> RMul(w[i], w[i])])
    IN  RDiv(RSub(squares, RDiv(RMul(sum, sum), R(n))), R(n - 1))

\* C14: rolling_volatility has one entry per return; entry i is the
\* annualized sample standard deviation of the 30 returns ending at i, and
\* the first 29 entries are the no-value marker, never 0.
C14_RollingVolatility ==
    (OnCleanSeries(2) /\ result.kind = "metrics") =>
        LET r == ReturnsOf(UsedSeries)
            rv == result.value.rolling_volatility
        IN  /\ Len(rv) = Len(r)
            /\ \A i \in 1 .. Len(rv) :
                   IF i < 30
                   THEN rv[i] = RootNaN /\ rv[i] # RootZero
                   ELSE /\ rv[i] = Root(1, RMul(SampleVarOf(SubSeq(r, i - 29, i)), R(252)))
                        /\ ~RootIsNaN(rv[i])

C14_Witness ==
    /\ OnCleanSeries(2)
    /\ result.kind = "metrics"
    /\ Len(result.value.rolling_volatility) = 31
    /\ result.value.rolling_volatility[29] = RootNaN
    /\ result.value.rolling_volatility[30].sgn = 1
    /\ result.value.rolling_volatility[31].sgn = 1

\* the line a comparison ticker gets from its own price data alone
OwnComparisonLine(t) == compare_app(<<t>>, args.provider)

\* C15: in a comparison run, a result line is shown for a comparison ticker
\* exactly when that ticker's own price data gives metrics, with the total
\* return of that data, whatever the outcome for the primary ticker and for
\* the other tickers of the list.
C15_ComparisonPerTicker ==
    (op = "app.run_analysis" /\ args.compare_tickers # <<>>) =>
        \A i \in 1 .. Len(args.compare_tickers) :
            LET t == args.compare_tickers[i]
                shown == {j \in 1 .. Len(result.comparison) :
                             result.comparison[j].ticker = t}
            IN  /\ (shown # {}) <=> (OwnComparisonLine(t) # <<>>)
                /\ \A j \in shown : result.comparison[j] = OwnComparisonLine(t)[1]

\* C16: an article that lacks a field is rendered with the placeholder
\* ("No title" for the title, "#" for the link), and rendering the news list
\* never fails because of a missing field.
C16_MissingFieldsPlaceholders ==
    (op = "app.run_profile" /\ result.articles # <<>>) =>
        /\ result.exception = "none"
        /\ Len(result.news) = Len(result.articles)
        /\ \A i \in 1 .. Len(result.articles) :
               LET article == result.articles[i]
               IN  /\ result.news[i].title
                          = IF "title" \in DOMAIN article THEN article.title
                            ELSE "No title"
                   /\ result.news[i].url
                          = IF "url" \in DOMAIN article THEN article.url ELSE "#"

SummaryKeys ==
    {"current_price", "daily_change_abs", "daily_change_pct", "one_year_return_pct",
     "history"}

\* C19: the one-year get_stock_data returns None or a dict holding all five
\* keys; it returns None for an empty history, and None after reporting an
\* error when the fetch raises and when the history has exactly one row.
C19_OneYearSummary ==
    op = "app.get_stock_data_profile" =>
        LET response == args.response
            reported == \E i \in 1 .. Len(result.messages) :
                            result.messages[i] = "error: Error fetching data"
        IN  /\ \/ result.data = [kind |-> "None"]
               \/ /\ result.data.kind = "dict"
                  /\ SummaryKeys \subseteq DOMAIN result.data
            /\ response.kind = "raise" => (result.data = [kind |-> "None"] /\ reported)
            /\ (response.kind = "history" /\ response.rows = 0) =>
                   result.data = [kind |-> "None"]
            /\ (response.kind = "history" /\ response.rows = 1) =>
                   (result.data = [kind |-> "None"] /\ reported)

C19_Witness ==
    /\ op = "app.get_stock_data_profile"
    /\ args.response.kind = "history"
    /\ args.response.rows = 1
    /\ args.response.has_close
    /\ result.data = [kind |-> "None"]
    /\ result.messages = <<"error: Error fetching data">>

AdviceOps == {"app.generate_ai_advice", "investopal.generate_ai_advice"}

Advises(tag) == \E i \in 1 .. Len(result.value) : result.value[i] = tag

\* C17: in both variants the strong-performance advisory is emitted exactly
\* when sharpe_ratio > 1.5 and the poor-risk-adjusted-returns advisory
\* exactly when sharpe_ratio < 0.5, and never both.
C17_SharpeAdvisories ==
    op \in AdviceOps =>
        LET sharpe == args.metrics.sharpe_ratio
        IN  /\ Advises("strong_performance") <=> RLess(Rat(3, 2), sharpe)
            /\ Advises("poor_risk_adjusted") <=> RLess(sharpe, Rat(1, 2))
            /\ ~(Advises("strong_performance") /\ Advises("poor_risk_adjusted"))

C17_Witness ==
    /\ op = "app.generate_ai_advice"
    /\ args.metrics.sharpe_ratio = Rat(151, 100)
    /\ Advises("strong_performance")
    /\ ~Advises("poor_risk_adjusted")

\* C18: in both variants an advisory about the risk mismatch is emitted
\* exactly when the computed category differs from the selected preference.
C18_MismatchAdvisoryAgreement ==
    op \in AdviceOps =>
        ((Advises("risk_mismatch") \/ Advises("lower_risk"))
            <=> args.risk_category # args.selected_risk)

\* a run of src/investopal.py that reached the simulation with a
\* non-negative average return
SimulatedWithGain ==
    /\ op = "investopal.run_analysis"
    /\ result.projection.values # <<>>
    /\ RLeq(R(0), result.metrics.value.avg_return)
    /\ RLeq(R(0), args.investment_amount)
    /\ RLeq(R(0), args.monthly_sip)

\* C20: for initial_amount >= 0, monthly_contribution >= 0 and
\* annual_return >= 0 the trajectory of simulate_investment never decreases
\* and its k-th value is at least initial_amount + k * monthly_contribution;
\* in a run the final value is then at least total_invested =
\* investment_amount + monthly_sip * years * 12 and total_returns >= 0.
C20_NeverBelowInvested ==
    /\ (/\ op = "simulate_investment"
        /\ RLeq(R(0), args.initial_amount)
        /\ RLeq(R(0), args.monthly_contribution)
        /\ RLeq(R(0), args.annual_return)) =>
           LET values == result.value
           IN  /\ \A k \in 1 .. Len(values) - 1 : RLeq(values[k], values[k + 1])
               /\ \A k \in 0 .. Len(values) - 1 :
                      RLeq(RAdd(args.initial_amount,
                                RMul(R(k), args.monthly_contribution)),
                           values[k + 1])
    /\ SimulatedWithGain =>
           LET invested == RAdd(args.investment_amount,
                                RMul(args.monthly_sip, R(args.investment_years * 12)))
           IN  /\ result.projection.total_invested = invested
               /\ RLeq(invested, result.projection.final_value)
               /\ RLeq(R(0), result.projection.total_returns)

C20_Witness ==
    /\ SimulatedWithGain
    /\ RLess(R(0), args.monthly_sip)
    /\ RLess(R(0), result.metrics.value.avg_return)
    /\ RLess(R(0), result.projection.total_returns)
    /\ Len(result.projection.values) = args.investment_years * 12 + 1

====
